---- MODULE Spec2Model ----
(***************************************************************************)
(* Model of the image gateway of tkdnbb/r2-images (src/src/index.ts):      *)
(* the handler of GET /images/:filename on Cloudflare Workers, with its    *)
(* filename validation, extension allow-list, R2 head/get calls and the    *)
(* edge cache (caches.default) populated through executionCtx.waitUntil.   *)
(*                                                                         *)
(* Strings that the code inspects character by character (filenames,      *)
(* extensions, entity tags, decimal numbers) are sequences of one-letter  *)
(* strings.  Header values are sequences of string chunks.                *)
(***************************************************************************)
EXTENDS Integers, Sequences, FiniteSets, TLC

(***************************************************************************)
(* Characters                                                              *)
(***************************************************************************)
LowerLetters == <<"a","b","c","d","e","f","g","h","i","j","k","l","m",
                  "n","o","p","q","r","s","t","u","v","w","x","y","z">>

UpperLetters == <<"A","B","C","D","E","F","G","H","I","J","K","L","M",
                  "N","O","P","Q","R","S","T","U","V","W","X","Y","Z">>

Digits == <<"0","1","2","3","4","5","6","7","8","9">>

Range(s) == {s[i] : i \in DOMAIN s}

\* The class \w of a JavaScript regular expression without the u flag.
WordChars == Range(LowerLetters) \cup Range(UpperLetters) \cup Range(Digits) \cup {"_"}

\* The class [\w\-.] of the validation pattern.
FilenameChars == WordChars \cup {"-", "."}

\* String.prototype.toLowerCase, one character.
toLowerCaseChar(c) ==
    IF c \in Range(UpperLetters)
    THEN LowerLetters[CHOOSE i \in DOMAIN UpperLetters : UpperLetters[i] = c]
    ELSE c

\* String.prototype.toLowerCase.
toLowerCase(s) == [i \in DOMAIN s |-> toLowerCaseChar(s[i])]

(***************************************************************************)
(* String primitives used by the handler                                   *)
(***************************************************************************)
\* String.prototype.includes(sub).
includes(s, sub) ==
    \E i \in 0..(Len(s) - Len(sub)) :
        \A j \in 1..Len(sub) : s[i + j] = sub[j]

\* The positions of the separators of s, in order, between the two ends.
separators(s, sep) ==
    <<0>> \o SelectSeq([i \in 1..Len(s) |-> i], LAMBDA i : s[i] = sep) \o <<Len(s) + 1>>

\* String.prototype.split(sep) for a one-character separator: the tokens
\* between the separators, empty tokens included ("" splits into [""]).
split(s, sep) ==
    LET at == separators(s, sep)
    IN  [k \in 1..(Len(at) - 1) |-> SubSeq(s, at[k] + 1, at[k + 1] - 1)]

\* String.prototype.lastIndexOf(c), 0-based, -1 when c does not occur.
lastIndexOf(s, c) ==
    IF \E i \in DOMAIN s : s[i] = c
    THEN (CHOOSE i \in DOMAIN s : s[i] = c /\ \A j \in DOMAIN s : s[j] = c => j <= i) - 1
    ELSE -1

\* String.prototype.slice(start): a negative start counts from the end.
slice(s, start) ==
    LET from == IF start < 0 THEN (IF Len(s) + start < 0 THEN 0 ELSE Len(s) + start)
                ELSE (IF start > Len(s) THEN Len(s) ELSE start)
    IN  SubSeq(s, from + 1, Len(s))

\* String.prototype.replace(/"/g, ''): every double quote removed.
RECURSIVE stripQuotes(_)
stripQuotes(s) ==
    IF s = <<>> THEN <<>>
    ELSE IF Head(s) = "\"" THEN stripQuotes(Tail(s))
    ELSE <<Head(s)>> \o stripQuotes(Tail(s))

\* Number.prototype.toString() of a non-negative integer, in decimal.
RECURSIVE numberToString(_)
numberToString(n) ==
    IF n < 10 THEN <<Digits[n + 1]>>
    ELSE Append(numberToString(n \div 10), Digits[(n % 10) + 1])

(***************************************************************************)
(* Validation and classification (index.ts 15-28, 49-50)                   *)
(***************************************************************************)
\* The quantifier {1,256} and the token limit of validateFilename.
MaxFilenameLength == 256
MaxSplitLength == 10

\* /^[\w\-.]{1,256}$/.test(filename)
regexTest(filename) ==
    /\ Len(filename) >= 1
    /\ Len(filename) <= MaxFilenameLength
    /\ \A i \in DOMAIN filename : filename[i] \in FilenameChars

\* validateFilename without its '..' test.
validateFilename_noTraversalTest(filename) ==
    /\ regexTest(filename)
    /\ Len(split(filename, ".")) <= MaxSplitLength

\* validateFilename without its token limit.
validateFilename_noSplitLimit(filename) ==
    /\ regexTest(filename)
    /\ ~includes(filename, <<".", ".">>)

validateFilename(filename) ==
    /\ regexTest(filename)
    /\ ~includes(filename, <<".", ".">>)
    /\ Len(split(filename, ".")) <= MaxSplitLength

ALLOWED_EXTENSIONS ==
    { <<".","j","p","g">>, <<".","j","p","e","g">>, <<".","p","n","g">>,
      <<".","g","i","f">>, <<".","w","e","b","p">> }

CONTENT_TYPES(ext) ==
    CASE ext = <<".","j","p","g">>     -> "image/jpeg"
      [] ext = <<".","j","p","e","g">> -> "image/jpeg"
      [] ext = <<".","p","n","g">>     -> "image/png"
      [] ext = <<".","g","i","f">>     -> "image/gif"
      [] ext = <<".","w","e","b","p">> -> "image/webp"

\* The extension taken without lowercasing it.
extOf_caseSensitive(filename) == slice(filename, lastIndexOf(filename, "."))

\* filename.slice(filename.lastIndexOf('.')).toLowerCase()
extOf(filename) == toLowerCase(slice(filename, lastIndexOf(filename, ".")))

(***************************************************************************)
(* HTTP values: header collections, plain objects, responses               *)
(***************************************************************************)
\* Header names are case-insensitive: a Headers object keeps them lowercased.
lowerHeaderName(name) ==
    CASE name = "Content-Type"           -> "content-type"
      [] name = "Cache-Control"          -> "cache-control"
      [] name = "ETag"                   -> "etag"
      [] name = "Content-Length"         -> "content-length"
      [] name = "X-Content-Type-Options" -> "x-content-type-options"
      [] name = "X-Cache-Status"         -> "x-cache-status"
      [] OTHER                           -> name

\* Headers iterates its entries sorted by (lowercased) name.
HeaderOrder == <<"cache-control", "content-length", "content-type", "etag",
                 "x-cache-status", "x-content-type-options">>

EmptyHeaders == [n \in {} |-> <<>>]

\* Headers.prototype.set
headersSet(h, name, value) ==
    LET ln == lowerHeaderName(name)
    IN  [n \in DOMAIN h \cup {ln} |-> IF n = ln THEN value ELSE h[n]]

\* Headers.prototype.append: a second value for a name is joined with ", ".
headersAppend(h, name, value) ==
    LET ln == lowerHeaderName(name)
    IN  [n \in DOMAIN h \cup {ln} |->
            IF n # ln THEN h[n]
            ELSE IF ln \in DOMAIN h THEN h[ln] \o <<", ">> \o value
            ELSE value]

\* A plain object is the sequence of its [k, v] entries in insertion order;
\* its keys are case-sensitive.  Assigning an existing key overwrites in place.
objectSet(obj, key, value) ==
    IF \E i \in DOMAIN obj : obj[i].k = key
    THEN [i \in DOMAIN obj |-> IF obj[i].k = key THEN [k |-> key, v |-> value] ELSE obj[i]]
    ELSE Append(obj, [k |-> key, v |-> value])

\* Object.fromEntries(headers)
objectFromEntries(h) ==
    LET names == SelectSeq(HeaderOrder, LAMBDA n : n \in DOMAIN h)
    IN  [i \in DOMAIN names |-> [k |-> names[i], v |-> h[names[i]]]]

\* new Headers(init) for a plain object: every entry is appended.
RECURSIVE headersFromObject(_, _)
headersFromObject(h, obj) ==
    IF obj = <<>> THEN h
    ELSE headersFromObject(headersAppend(h, Head(obj).k, Head(obj).v), Tail(obj))

\* The header argument of c.newResponse: every entry is set.
RECURSIVE headersSetAll(_, _)
headersSetAll(h, obj) ==
    IF obj = <<>> THEN h
    ELSE headersSetAll(headersSet(h, Head(obj).k, Head(obj).v), Tail(obj))

NoResponse == [status |-> 0, headers |-> EmptyHeaders, body |-> <<>>]

\* c.text(text, status)
textResponse(text, status) ==
    [status  |-> status,
     headers |-> headersSet(EmptyHeaders, "Content-Type", <<"text/plain; charset=UTF-8">>),
     body    |-> <<text>>]

\* Response.prototype.clone with the caller's body left empty (a shared cursor).
clone_consuming(resp) == [orig |-> [resp EXCEPT !.body = <<>>], copy |-> resp]

\* Response.prototype.clone: the body is teed, both branches carry all bytes.
clone(resp) == [orig |-> resp, copy |-> resp]

(***************************************************************************)
(* The bucket and the requests of the model                                *)
(***************************************************************************)
PhotoJpg == <<"a", ".", "j", "p", "g">>
LogoPng  == <<"b", ".", "P", "N", "G">>
DocTxt   == <<"c", ".", "t", "x", "t">>
Traversal == <<".", ".", "/", "s", ".", "p", "n", "g">>

\* The keys the bucket may hold, and the filenames requests carry.
StoreKeys == {PhotoJpg, LogoPng}
HandlerNames == StoreKeys \cup {DocTxt, Traversal}

\* The object versions a key may hold; "absent" is no object.  The photo is
\* the key other parties overwrite: it has two versions, the logo one.
Versions == {"v1", "v2"}
VersionsOf(k) == IF k = PhotoJpg THEN Versions ELSE {"v1"}
Absent == "absent"

\* Version v of the object under key k: what HeadObject and GetObject return.
\* v1 has a quoted tag and 12345 bytes, v2 a weak tag and no bytes.
ObjectOf(k, v) ==
    [ETag          |-> IF v = "v1" THEN <<"\"", k[1], "1", "\"">>
                       ELSE <<"W", "/", "\"", k[1], "2", "\"">>,
     ContentLength |-> IF v = "v1" THEN 12345 ELSE 0,
     Body          |-> <<v>> \o k]

NoHead == [ETag |-> <<>>, ContentLength |-> -1]

\* The execution contexts (one per request in flight).
Requests == {"r1", "r2"}

\* c.req.url of the request for a filename; the cache identity of the request.
requestUrl(filename) == <<"/images/">> \o filename

CacheKeys == {requestUrl(k) : k \in StoreKeys}

VARIABLES
    store,          \* the bucket: key -> version held, or Absent
    cache,          \* caches.default: url -> stored response, or NoResponse
    cachePresent,   \* whether the runtime provides caches.default
    pc,             \* per request: "idle", "head", "match", "get", "done"
    filename,       \* per request: c.req.param('filename')
    headResponse,   \* per request: the result of HeadObject
    cachedResponse, \* per request: the result of cache.match
    response,       \* per request: the response returned to the caller
    error,          \* per request: the name of the error caught, "" if none
    calls,          \* per request: the store and cache calls issued, in order
    putState,       \* per request: waitUntil task "none", "pending", "stored", "failed"
    putEntry        \* per request: the clone handed to cache.put

vars == <<store, cache, cachePresent, pc, filename, headResponse, cachedResponse,
          response, error, calls, putState, putEntry>>

reqVars == <<pc, filename, headResponse, cachedResponse, response, error, calls>>
putVars == <<putState, putEntry>>

\* The bucket's answer for a key.
storeLookup(k) == IF k \in DOMAIN store THEN store[k] ELSE Absent

Init ==
    /\ store \in [StoreKeys -> Versions \cup {Absent}]
    /\ \A k \in StoreKeys : store[k] \in VersionsOf(k) \cup {Absent}
    /\ cache = [u \in CacheKeys |-> NoResponse]
    /\ cachePresent \in BOOLEAN
    /\ pc = [r \in Requests |-> "idle"]
    /\ filename = [r \in Requests |-> <<>>]
    /\ headResponse = [r \in Requests |-> NoHead]
    /\ cachedResponse = [r \in Requests |-> NoResponse]
    /\ response = [r \in Requests |-> NoResponse]
    /\ error = [r \in Requests |-> ""]
    /\ calls = [r \in Requests |-> <<>>]
    /\ putState = [r \in Requests |-> "none"]
    /\ putEntry = [r \in Requests |-> NoResponse]

(***************************************************************************)
(* The collaborators: what a call may answer                               *)
(***************************************************************************)
\* s3.send(HeadObjectCommand): the metadata of the object held now, the
\* NotFound error when the key holds none, or any other failure.
headObject(k) ==
    (IF storeLookup(k) = Absent
     THEN {[error |-> "NotFound", value |-> NoHead]}
     ELSE {[error |-> "",
            value |-> [ETag          |-> ObjectOf(k, storeLookup(k)).ETag,
                       ContentLength |-> ObjectOf(k, storeLookup(k)).ContentLength]]})
    \cup {[error |-> "StoreError", value |-> NoHead]}

\* s3.send(GetObjectCommand): the body of the object held now, the NoSuchKey
\* error when the key holds none, or any other failure.
getObject(k) ==
    (IF storeLookup(k) = Absent
     THEN {[error |-> "NoSuchKey", value |-> <<>>]}
     ELSE {[error |-> "", value |-> ObjectOf(k, storeLookup(k)).Body]})
    \cup {[error |-> "StoreError", value |-> <<>>]}

\* cache.match(cacheKey): the stored response, nothing (NoResponse), or a
\* rejection of the lookup.
cacheMatch(u) ==
    {[error |-> "", value |-> cache[u]], [error |-> "CacheError", value |-> NoResponse]}

(***************************************************************************)
(* The responses the handler builds                                        *)
(***************************************************************************)
\* The catch block with every error answered 404.
catchResponse_always404(name) == textResponse("Image not found", 404)

\* catch (error): NotFound is answered 404, everything else 500.
catchResponse(name) ==
    IF name = "NotFound" THEN textResponse("Image not found", 404)
    ELSE textResponse("Internal Server Error", 500)

\* The hit response with the marker written under its capitalised name.
hitResponse_capitalisedKey(cached) ==
    [status  |-> 200,
     headers |-> headersFromObject(EmptyHeaders,
                    objectSet(objectFromEntries(cached.headers), "X-Cache-Status", <<"HIT">>)),
     body    |-> cached.body]

\* The hit response without the spread of the cached headers.
hitResponse_withoutCachedHeaders(cached) ==
    [status  |-> 200,
     headers |-> headersFromObject(EmptyHeaders, <<[k |-> "x-cache-status", v |-> <<"HIT">>]>>),
     body    |-> cached.body]

\* new Response(cachedResponse.body, {status: 200, headers: {...entries, 'x-cache-status': 'HIT'}})
hitResponse(cached) ==
    [status  |-> 200,
     headers |-> headersFromObject(EmptyHeaders,
                    objectSet(objectFromEntries(cached.headers), "x-cache-status", <<"HIT">>)),
     body    |-> cached.body]

\* The miss response with the entity tag passed through as the store gave it.
missResponse_rawETag(ext, head, body) ==
    [status  |-> 200,
     headers |-> headersSetAll(EmptyHeaders,
        << [k |-> "Content-Type",           v |-> <<CONTENT_TYPES(ext)>>],
           [k |-> "Cache-Control",          v |-> <<"public, max-age=604800">>],
           [k |-> "ETag",                   v |-> head.ETag],
           [k |-> "Content-Length",         v |-> numberToString(head.ContentLength)],
           [k |-> "X-Content-Type-Options", v |-> <<"nosniff">>],
           [k |-> "X-Cache-Status",         v |-> <<"MISS">>] >>),
     body    |-> body]

\* c.newResponse(s3Response.Body, 200, {...})
missResponse(ext, head, body) ==
    [status  |-> 200,
     headers |-> headersSetAll(EmptyHeaders,
        << [k |-> "Content-Type",           v |-> <<CONTENT_TYPES(ext)>>],
           [k |-> "Cache-Control",          v |-> <<"public, max-age=604800">>],
           [k |-> "ETag",                   v |-> stripQuotes(head.ETag)],
           [k |-> "Content-Length",         v |-> numberToString(head.ContentLength)],
           [k |-> "X-Content-Type-Options", v |-> <<"nosniff">>],
           [k |-> "X-Cache-Status",         v |-> <<"MISS">>] >>),
     body    |-> body]

(***************************************************************************)
(* The handler, one action per stretch between two awaits                  *)
(***************************************************************************)
\* The request ends: the response is returned to the caller.
Respond(r, resp, err) ==
    /\ pc' = [pc EXCEPT ![r] = "done"]
    /\ response' = [response EXCEPT ![r] = resp]
    /\ error' = [error EXCEPT ![r] = err]

\* An awaited call threw: the catch block answers.
Catch(r, name) == Respond(r, catchResponse(name), name)

\* The handler with HeadObject issued next to the client's construction,
\* ahead of validation and classification.
Receive_headBeforeValidation(r, f) ==
    /\ pc[r] \in {"idle", "done"}
    /\ putState[r] # "pending"
    /\ filename' = [filename EXCEPT ![r] = f]
    /\ headResponse' = [headResponse EXCEPT ![r] = NoHead]
    /\ cachedResponse' = [cachedResponse EXCEPT ![r] = NoResponse]
    /\ putState' = [putState EXCEPT ![r] = "none"]
    /\ putEntry' = [putEntry EXCEPT ![r] = NoResponse]
    /\ calls' = [calls EXCEPT ![r] = <<"headObject">>]
    /\ IF ~validateFilename(f)
       THEN Respond(r, textResponse("Invalid filename format", 400), "")
       ELSE IF extOf(f) \notin ALLOWED_EXTENSIONS
       THEN Respond(r, textResponse("Unsupported file type", 415), "")
       ELSE /\ pc' = [pc EXCEPT ![r] = "head"]
            /\ response' = [response EXCEPT ![r] = NoResponse]
            /\ error' = [error EXCEPT ![r] = ""]
    /\ UNCHANGED <<store, cache, cachePresent>>

\* A request arrives in a free execution context: validation, classification,
\* and, when both pass, the HeadObject call is issued (index.ts 31-60).
Receive(r, f) ==
    /\ pc[r] \in {"idle", "done"}
    /\ putState[r] # "pending"
    /\ filename' = [filename EXCEPT ![r] = f]
    /\ headResponse' = [headResponse EXCEPT ![r] = NoHead]
    /\ cachedResponse' = [cachedResponse EXCEPT ![r] = NoResponse]
    /\ putState' = [putState EXCEPT ![r] = "none"]
    /\ putEntry' = [putEntry EXCEPT ![r] = NoResponse]
    /\ IF ~validateFilename(f)
       THEN /\ Respond(r, textResponse("Invalid filename format", 400), "")
            /\ calls' = [calls EXCEPT ![r] = <<>>]
       ELSE IF extOf(f) \notin ALLOWED_EXTENSIONS
       THEN /\ Respond(r, textResponse("Unsupported file type", 415), "")
            /\ calls' = [calls EXCEPT ![r] = <<>>]
       ELSE /\ pc' = [pc EXCEPT ![r] = "head"]
            /\ response' = [response EXCEPT ![r] = NoResponse]
            /\ error' = [error EXCEPT ![r] = ""]
            /\ calls' = [calls EXCEPT ![r] = <<"headObject">>]
    /\ UNCHANGED <<store, cache, cachePresent>>

\* HeadObject settles, and on NotFound a cached response is served in place
\* of the 404.
HeadReturn_servesCacheOnNotFound(r) ==
    /\ pc[r] = "head"
    /\ \E res \in headObject(filename[r]) :
        IF res.error = "NotFound" /\ cachePresent /\ cache[requestUrl(filename[r])] # NoResponse
        THEN /\ Respond(r, hitResponse(cache[requestUrl(filename[r])]), "")
             /\ UNCHANGED <<headResponse, calls>>
        ELSE IF res.error # ""
        THEN /\ Catch(r, res.error)
             /\ UNCHANGED <<headResponse, calls>>
        ELSE /\ headResponse' = [headResponse EXCEPT ![r] = res.value]
             /\ IF cachePresent
                THEN /\ pc' = [pc EXCEPT ![r] = "match"]
                     /\ calls' = [calls EXCEPT ![r] = Append(@, "match")]
                     /\ UNCHANGED <<response, error>>
                ELSE /\ Catch(r, "TypeError")
                     /\ UNCHANGED calls
    /\ UNCHANGED <<store, cache, cachePresent, filename, cachedResponse, putState, putEntry>>

\* HeadObject settles, and a first failure other than NotFound is answered
\* by sending the command again.
HeadReturn_retriesOnce(r) ==
    /\ pc[r] = "head"
    /\ \E res \in headObject(filename[r]) :
        IF res.error = "StoreError" /\ Len(calls[r]) = 1
        THEN /\ calls' = [calls EXCEPT ![r] = Append(@, "headObject")]
             /\ UNCHANGED <<pc, response, error, headResponse>>
        ELSE IF res.error # ""
        THEN /\ Catch(r, res.error)
             /\ UNCHANGED <<headResponse, calls>>
        ELSE /\ headResponse' = [headResponse EXCEPT ![r] = res.value]
             /\ IF cachePresent
                THEN /\ pc' = [pc EXCEPT ![r] = "match"]
                     /\ calls' = [calls EXCEPT ![r] = Append(@, "match")]
                     /\ UNCHANGED <<response, error>>
                ELSE /\ Catch(r, "TypeError")
                     /\ UNCHANGED calls
    /\ UNCHANGED <<store, cache, cachePresent, filename, cachedResponse, putState, putEntry>>

\* HeadObject settles; on success the cache lookup is issued (index.ts 60-73).
HeadReturn(r) ==
    /\ pc[r] = "head"
    /\ \E res \in headObject(filename[r]) :
        IF res.error # ""
        THEN /\ Catch(r, res.error)
             /\ UNCHANGED <<headResponse, calls>>
        ELSE /\ headResponse' = [headResponse EXCEPT ![r] = res.value]
             /\ IF cachePresent
                THEN /\ pc' = [pc EXCEPT ![r] = "match"]
                     /\ calls' = [calls EXCEPT ![r] = Append(@, "match")]
                     /\ UNCHANGED <<response, error>>
                ELSE /\ Catch(r, "TypeError")
                     /\ UNCHANGED calls
    /\ UNCHANGED <<store, cache, cachePresent, filename, cachedResponse, putState, putEntry>>

\* The lookup settles with every answer taken for a miss.
MatchReturn_ignoresEntry(r) ==
    /\ pc[r] = "match"
    /\ \E res \in cacheMatch(requestUrl(filename[r])) :
        IF res.error # ""
        THEN /\ Catch(r, res.error)
             /\ UNCHANGED <<cachedResponse, calls>>
        ELSE /\ cachedResponse' = [cachedResponse EXCEPT ![r] = res.value]
             /\ pc' = [pc EXCEPT ![r] = "get"]
             /\ calls' = [calls EXCEPT ![r] = Append(@, "getObject")]
             /\ UNCHANGED <<response, error>>
    /\ UNCHANGED <<store, cache, cachePresent, filename, headResponse, putState, putEntry>>

\* cache.match settles: a stored response is answered as a hit, otherwise
\* GetObject is issued (index.ts 73-84).
MatchReturn(r) ==
    /\ pc[r] = "match"
    /\ \E res \in cacheMatch(requestUrl(filename[r])) :
        IF res.error # ""
        THEN /\ Catch(r, res.error)
             /\ UNCHANGED <<cachedResponse, calls>>
        ELSE /\ cachedResponse' = [cachedResponse EXCEPT ![r] = res.value]
             /\ IF res.value # NoResponse
                THEN /\ Respond(r, hitResponse(res.value), "")
                     /\ UNCHANGED calls
                ELSE /\ pc' = [pc EXCEPT ![r] = "get"]
                     /\ calls' = [calls EXCEPT ![r] = Append(@, "getObject")]
                     /\ UNCHANGED <<response, error>>
    /\ UNCHANGED <<store, cache, cachePresent, filename, headResponse, putState, putEntry>>

\* GetObject settles, and the answer of the catch block is cached as well.
GetReturn_cachesErrors(r) ==
    /\ pc[r] = "get"
    /\ \E res \in getObject(filename[r]) :
        LET newResponse == IF res.error # "" THEN catchResponse(res.error)
                           ELSE missResponse(extOf(filename[r]), headResponse[r], res.value)
            tee == clone(newResponse)
        IN  /\ putState' = [putState EXCEPT ![r] = "pending"]
            /\ putEntry' = [putEntry EXCEPT ![r] = tee.copy]
            /\ calls' = [calls EXCEPT ![r] = Append(@, "put")]
            /\ Respond(r, tee.orig, res.error)
    /\ UNCHANGED <<store, cache, cachePresent, filename, headResponse, cachedResponse>>

\* GetObject settles: the response is built, its clone is handed to
\* cache.put inside waitUntil, and the response is returned (index.ts 84-96).
GetReturn(r) ==
    /\ pc[r] = "get"
    /\ \E res \in getObject(filename[r]) :
        IF res.error # ""
        THEN /\ Catch(r, res.error)
             /\ UNCHANGED <<calls, putState, putEntry>>
        ELSE LET newResponse == missResponse(extOf(filename[r]), headResponse[r], res.value)
                 tee == clone(newResponse)
             IN  /\ putState' = [putState EXCEPT ![r] = "pending"]
                 /\ putEntry' = [putEntry EXCEPT ![r] = tee.copy]
                 /\ calls' = [calls EXCEPT ![r] = Append(@, "put")]
                 /\ Respond(r, tee.orig, "")
    /\ UNCHANGED <<store, cache, cachePresent, filename, headResponse, cachedResponse>>

\* The promise of cache.put rejects and the rejection reaches the caller.
PutSettle_surfacesFailure(r) ==
    /\ putState[r] = "pending"
    /\ \/ /\ cache' = [cache EXCEPT ![requestUrl(filename[r])] = putEntry[r]]
          /\ putState' = [putState EXCEPT ![r] = "stored"]
          /\ UNCHANGED <<response, error>>
       \/ /\ putState' = [putState EXCEPT ![r] = "failed"]
          /\ response' = [response EXCEPT ![r] = catchResponse("CacheError")]
          /\ error' = [error EXCEPT ![r] = "CacheError"]
          /\ UNCHANGED cache
    /\ UNCHANGED <<store, cachePresent, pc, filename, headResponse, cachedResponse, calls, putEntry>>

\* The promise handed to waitUntil settles: the entry is stored, or the put
\* failed and nothing is stored (index.ts 95).
PutSettle(r) ==
    /\ putState[r] = "pending"
    /\ \/ /\ cache' = [cache EXCEPT ![requestUrl(filename[r])] = putEntry[r]]
          /\ putState' = [putState EXCEPT ![r] = "stored"]
       \/ /\ putState' = [putState EXCEPT ![r] = "failed"]
          /\ UNCHANGED cache
    /\ UNCHANGED <<store, cachePresent, reqVars, putEntry>>

(***************************************************************************)
(* The environment: other parties write the bucket, the cache evicts       *)
(***************************************************************************)
\* Another party uploads a version under k, or deletes the object.
StoreWrite(k, v) ==
    /\ v \in VersionsOf(k) \cup {Absent}
    /\ store[k] # v
    /\ store' = [store EXCEPT ![k] = v]
    /\ UNCHANGED <<cache, cachePresent, reqVars, putVars>>

\* The cache drops an entry (its own TTL and eviction policy).
CacheEvict(u) ==
    /\ cache[u] # NoResponse
    /\ cache' = [cache EXCEPT ![u] = NoResponse]
    /\ UNCHANGED <<store, cachePresent, reqVars, putVars>>

Next ==
    \/ \E r \in Requests, f \in HandlerNames : Receive(r, f)
    \/ \E r \in Requests : HeadReturn(r)
    \/ \E r \in Requests : MatchReturn(r)
    \/ \E r \in Requests : GetReturn(r)
    \/ \E r \in Requests : PutSettle(r)
    \/ \E k \in StoreKeys, v \in Versions \cup {Absent} : StoreWrite(k, v)
    \/ \E u \in CacheKeys : CacheEvict(u)

Spec == Init /\ [][Next]_vars

\* Every awaited store or cache call of a request settles: it returns or fails.
CallsSettle ==
    \A r \in Requests :
        /\ WF_vars(HeadReturn(r))
        /\ WF_vars(MatchReturn(r))
        /\ WF_vars(GetReturn(r))

SpecFair == Spec /\ CallsSettle

\* The same system while no other party writes the bucket.
NextStable ==
    \/ \E r \in Requests, f \in HandlerNames : Receive(r, f)
    \/ \E r \in Requests : HeadReturn(r)
    \/ \E r \in Requests : MatchReturn(r)
    \/ \E r \in Requests : GetReturn(r)
    \/ \E r \in Requests : PutSettle(r)
    \/ \E u \in CacheKeys : CacheEvict(u)

SpecStable == Init /\ [][NextStable]_vars

(***************************************************************************)
(* One request over a wide set of filenames                                *)
(***************************************************************************)
MaxShortLength == 3
MaxStemLength == 2
MaxDotTokens == 12

Alphabet == {"a", "Z", "7", "_", "-", ".", "/"}

\* Every string over the alphabet of at most n characters.
StringsUpTo(n) == UNION {[1..m -> Alphabet] : m \in 0..n}

Suffixes ==
    { <<".","j","p","g">>, <<".","J","P","G">>, <<".","j","p","e","g">>,
      <<".","p","n","g">>, <<".","P","n","G">>, <<".","g","i","f">>,
      <<".","w","e","b","p">>, <<".","t","x","t">>, <<".","p","d","f">>,
      <<".","j","p","g","x">>, <<"j","p","g">>, <<"p","n","g">>, <<"w","e","b","p">> }

\* n times the letter a.
Pad(n) == [i \in 1..n |-> "a"]

\* Names around the length limit, with and without an extension.
LongNames ==
    {Pad(n) \o e : n \in (MaxFilenameLength - 6)..(MaxFilenameLength + 1),
                   e \in {<<>>, <<".","j","p","g">>}}

\* The name of k dot-delimited tokens a.a. ... .jpg
RECURSIVE Dotted(_)
Dotted(k) == IF k <= 1 THEN <<"j","p","g">> ELSE <<"a", ".">> \o Dotted(k - 1)

DottedNames == {Dotted(k) : k \in 1..MaxDotTokens}

ValidateNames ==
    HandlerNames \cup StringsUpTo(MaxShortLength) \cup LongNames \cup DottedNames
    \cup {s \o e : s \in StringsUpTo(MaxStemLength), e \in Suffixes}

NextValidate ==
    \/ \E f \in ValidateNames : pc["r1"] = "idle" /\ Receive("r1", f)
    \/ HeadReturn("r1")
    \/ MatchReturn("r1")
    \/ GetReturn("r1")
    \/ PutSettle("r1")

SpecValidate == Init /\ [][NextValidate]_vars

(***************************************************************************)
(* Properties                                                              *)
(***************************************************************************)
Started(r) == pc[r] # "idle"
Finished(r) == pc[r] = "done"

\* The number of dots of a name.
NumDots(f) == Cardinality({i \in DOMAIN f : f[i] = "."})

HasDotDot(f) == \E i \in 1..(Len(f) - 1) : f[i] = "." /\ f[i + 1] = "."

AllLegal(f) == \A i \in DOMAIN f : f[i] \in WordChars \cup {"-", "."}

\* The five cases in which claim C9 has the filename refused.
Refused(f) ==
    \/ Len(f) = 0
    \/ Len(f) > 256
    \/ ~AllLegal(f)
    \/ HasDotDot(f)
    \/ NumDots(f) + 1 > 10

\* C9: a request is answered 400 'Invalid filename format' exactly when its
\* filename is empty, longer than 256 characters, has a character outside
\* [A-Za-z0-9_-.], contains '..' or splits on '.' into more than 10 tokens;
\* such a request is never answered 415, whatever its extension.
C9_InvalidFilenameIs400 ==
    \A r \in Requests : Started(r) =>
        /\ (response[r].status = 400) <=> Refused(filename[r])
        /\ Refused(filename[r]) =>
              /\ Finished(r)
              /\ response[r].body = <<"Invalid filename format">>

\* C9 witness: a name with '..' and an allow-listed extension was answered 400.
C9_Witness ==
    \E r \in Requests :
        /\ Finished(r)
        /\ HasDotDot(filename[r])
        /\ AllLegal(filename[r])
        /\ extOf(filename[r]) \in ALLOWED_EXTENSIONS
        /\ response[r].status = 400

\* C10 as stated: every filename with 10 or more dot-delimited tokens (9 or
\* more dots) is refused, even when all its characters are legal and it has
\* no '..'.
C10_TenTokensRefused ==
    \A r \in Requests :
        (Started(r) /\ NumDots(filename[r]) >= 9) => response[r].status = 400

\* C10 amended: every filename with 11 or more dot-delimited tokens (10 or
\* more dots) is refused, even when all its characters are legal and it has
\* no '..'.
C10_ElevenTokensRefused ==
    \A r \in Requests :
        (Started(r) /\ NumDots(filename[r]) >= 10) => response[r].status = 400

\* C10 witness: a name of 11 tokens or more, all characters legal, no '..',
\* within the length limit, was answered 400.
C10_Witness ==
    \E r \in Requests :
        /\ Finished(r)
        /\ NumDots(filename[r]) >= 10
        /\ AllLegal(filename[r])
        /\ ~HasDotDot(filename[r])
        /\ Len(filename[r]) \in 1..256
        /\ response[r].status = 400

(***************************************************************************)
(* Properties of the pipeline                                              *)
(***************************************************************************)
\* The value of a header of a response, <<>> when it has none.
Header(resp, n) == IF n \in DOMAIN resp.headers THEN resp.headers[n] ELSE <<>>

IsHit(resp) == Header(resp, "x-cache-status") = <<"HIT">>
IsMiss(resp) == Header(resp, "x-cache-status") = <<"MISS">>

StoreCalls == {"headObject", "getObject"}

CacheFailures == {"CacheError", "TypeError"}

\* C2 as stated: a failing cache lookup, or an absent cache, is taken for a
\* miss; the request for an existing object still ends 200, never 404 or 500.
C2_LookupFailureIsMiss ==
    \A r \in Requests :
        (Finished(r) /\ error[r] \in CacheFailures) => response[r].status = 200

\* C3: the 200 MISS response is returned in the step that hands the clone to
\* cache.put, while the put is still pending; the settling of a put, failed
\* or not, changes no response; a failed put leaves the cache as it was.
C3_PutIsFireAndForget ==
    [][\A r \in Requests :
        /\ (pc[r] = "get" /\ pc'[r] = "done" /\ error'[r] = "") =>
              /\ response'[r].status = 200
              /\ IsMiss(response'[r])
              /\ putState'[r] = "pending"
        /\ (putState[r] = "pending" /\ putState'[r] # "pending") =>
              /\ response' = response
              /\ error' = error
              /\ pc' = pc
        /\ (putState[r] = "pending" /\ putState'[r] = "failed") => cache' = cache
      ]_vars

\* C3 witness: a request was answered 200 MISS, its put failed, and the
\* cache holds no entry for it.
C3_Witness ==
    \E r \in Requests :
        /\ Finished(r)
        /\ response[r].status = 200
        /\ IsMiss(response[r])
        /\ response[r].body # <<>>
        /\ putState[r] = "failed"
        /\ cache[requestUrl(filename[r])] = NoResponse

\* C4: when headObject is answered for a key the bucket does not hold, the
\* request ends 404 'Image not found' without an ETag header, whatever the
\* cache holds; and a request ends 404 only on the store's NotFound.
C4_AbsentKeyIs404 ==
    /\ [](\A r \in Requests :
            (Finished(r) /\ response[r].status = 404) =>
                /\ error[r] = "NotFound"
                /\ calls[r] = <<"headObject">>)
    /\ [][\A r \in Requests :
            (/\ pc[r] = "head"
             /\ pc'[r] # "head"
             /\ storeLookup(filename[r]) = Absent
             /\ error'[r] # "StoreError") =>
                /\ pc'[r] = "done"
                /\ response'[r].status = 404
                /\ response'[r].body = <<"Image not found">>
                /\ "etag" \notin DOMAIN response'[r].headers
                /\ calls'[r] = <<"headObject">>
         ]_vars

\* C4 witness: a request ended 404 while the cache held an entry for it.
C4_Witness ==
    \E r \in Requests :
        /\ Finished(r)
        /\ response[r].status = 404
        /\ "etag" \notin DOMAIN response[r].headers
        /\ cache[requestUrl(filename[r])] # NoResponse

\* C5: while the object of a key is not changed, the body of every 200
\* response, served from the cache or built from the store, and of every
\* cache entry, is the body of the store object.
C5_BodyRoundTrip ==
    /\ \A r \in Requests :
          (Finished(r) /\ response[r].status = 200) =>
              /\ storeLookup(filename[r]) # Absent
              /\ response[r].body = ObjectOf(filename[r], storeLookup(filename[r])).Body
    /\ \A k \in StoreKeys :
          cache[requestUrl(k)] # NoResponse =>
              /\ storeLookup(k) # Absent
              /\ cache[requestUrl(k)].body = ObjectOf(k, storeLookup(k)).Body

\* C5 witness: one request was answered MISS and another HIT for the same
\* key, both with the body of the store object.
C5_Witness ==
    \E a, b \in Requests :
        /\ Finished(a) /\ Finished(b)
        /\ filename[a] = filename[b]
        /\ IsMiss(response[a]) /\ IsHit(response[b])
        /\ response[a].body = response[b].body
        /\ response[b].body = ObjectOf(filename[b], storeLookup(filename[b])).Body

\* C6: two requests for the same valid, existing, unchanged key, neither hit
\* by a failing call, both end 200 with the same Content-Type and ETag,
\* whether answered MISS or HIT.
C6_Idempotence ==
    \A a, b \in Requests :
        (/\ Finished(a) /\ Finished(b)
         /\ filename[a] = filename[b]
         /\ filename[a] \in StoreKeys
         /\ storeLookup(filename[a]) # Absent
         /\ error[a] = "" /\ error[b] = "") =>
            /\ response[a].status = 200
            /\ response[b].status = 200
            /\ "content-type" \in DOMAIN response[a].headers
            /\ "etag" \in DOMAIN response[a].headers
            /\ Header(response[a], "content-type") = Header(response[b], "content-type")
            /\ Header(response[a], "etag") = Header(response[b], "etag")

\* C6 witness: a MISS and a HIT for the same key, both 200.
C6_Witness ==
    \E a, b \in Requests :
        /\ a # b
        /\ Finished(a) /\ Finished(b)
        /\ filename[a] = filename[b]
        /\ response[a].status = 200 /\ response[b].status = 200
        /\ IsMiss(response[a]) /\ IsHit(response[b])
        /\ Header(response[a], "etag") # <<>>

\* The MIME type claim C7 expects for an extension.
MimeOf(ext) ==
    IF ext \in {<<".","j","p","g">>, <<".","j","p","e","g">>} THEN <<"image/jpeg">>
    ELSE IF ext = <<".","p","n","g">> THEN <<"image/png">>
    ELSE IF ext = <<".","g","i","f">> THEN <<"image/gif">>
    ELSE IF ext = <<".","w","e","b","p">> THEN <<"image/webp">>
    ELSE <<>>

\* The number a sequence of decimal digits denotes.
RECURSIVE DigitsValue(_)
DigitsValue(d) ==
    IF d = <<>> THEN 0
    ELSE 10 * DigitsValue(SubSeq(d, 1, Len(d) - 1))
         + (CHOOSE n \in 0..9 : Digits[n + 1] = d[Len(d)])

SixHeaders == {"content-type", "cache-control", "etag", "content-length",
               "x-content-type-options", "x-cache-status"}

C8_HitHeaders ==
    \A r \in Requests : Finished(r) =>
        /\ cachedResponse[r] # NoResponse =>
              /\ response[r].status = 200
              /\ IsMiss(cachedResponse[r])
              /\ DOMAIN response[r].headers = DOMAIN cachedResponse[r].headers
              /\ \A n \in DOMAIN cachedResponse[r].headers :
                    response[r].headers[n] =
                        IF n = "x-cache-status" THEN <<"HIT">> ELSE cachedResponse[r].headers[n]
        /\ "x-cache-status" \in DOMAIN response[r].headers =>
              /\ IsHit(response[r]) \/ IsMiss(response[r])
              /\ IsHit(response[r]) =>
                    cachedResponse[r] # NoResponse /\ "getObject" \notin Range(calls[r])
              /\ IsMiss(response[r]) =>
                    cachedResponse[r] = NoResponse /\ "getObject" \in Range(calls[r])

\* C8 witness: a response served from a cache entry stored with MISS.
C8_Witness ==
    \E r \in Requests :
        /\ Finished(r)
        /\ cachedResponse[r] # NoResponse
        /\ IsMiss(cachedResponse[r])
        /\ IsHit(response[r])
        /\ Header(response[r], "etag") = Header(cachedResponse[r], "etag")

(***************************************************************************)
(* Properties of the classification                                        *)
(***************************************************************************)
ExtensionNames ==
    { <<"j","p","g">>, <<"j","p","e","g">>, <<"p","n","g">>, <<"g","i","f">>,
      <<"w","e","b","p">> }

\* The characters after the last '.' of a name that has one, lowercased.
AfterLastDot(f) ==
    LET last == CHOOSE i \in DOMAIN f : f[i] = "." /\ \A j \in (i + 1)..Len(f) : f[j] # "."
    IN  [j \in 1..(Len(f) - last) |->
            IF \E n \in DOMAIN UpperLetters : UpperLetters[n] = f[last + j]
            THEN LowerLetters[CHOOSE n \in DOMAIN UpperLetters : UpperLetters[n] = f[last + j]]
            ELSE f[last + j]]

\* The names claim C11 has accepted by the classifier.
Recognised(f) == NumDots(f) >= 1 /\ AfterLastDot(f) \in ExtensionNames

\* C11: a request whose filename passes validation is answered 415
\* 'Unsupported file type' exactly when the lowercased part from the last
\* '.' on is not jpg, jpeg, png, gif or webp; a name without '.' is always
\* answered 415, without an error being thrown.
C11_UnsupportedIs415 ==
    \A r \in Requests : (Started(r) /\ ~Refused(filename[r])) =>
        /\ (response[r].status = 415) <=> ~Recognised(filename[r])
        /\ ~Recognised(filename[r]) =>
              /\ Finished(r)
              /\ response[r].body = <<"Unsupported file type">>
              /\ error[r] = ""
        /\ NumDots(filename[r]) = 0 => response[r].status = 415

\* C11 witness: a name without '.' that spells an allowed extension was
\* answered 415.
C11_Witness ==
    \E r \in Requests :
        /\ Finished(r)
        /\ filename[r] \in ExtensionNames
        /\ response[r].status = 415
        /\ error[r] = ""

(***************************************************************************)
(* Properties of the requests as a whole                                   *)
(***************************************************************************)
\* Everything the model keeps of request r.
RequestState(r) ==
    <<pc[r], filename[r], headResponse[r], cachedResponse[r], response[r], error[r],
      calls[r], putState[r], putEntry[r]>>

\* C12: a request that ends 400 or 415 has issued no headObject, getObject,
\* cache lookup or cache store, and the step that answers it leaves the
\* cache (and the bucket) as they were.
C12_RejectionDoesNoIO ==
    /\ [](\A r \in Requests :
            (Finished(r) /\ response[r].status \in {400, 415}) =>
                /\ calls[r] = <<>>
                /\ headResponse[r] = NoHead
                /\ cachedResponse[r] = NoResponse
                /\ putState[r] = "none"
                /\ putEntry[r] = NoResponse
                /\ error[r] = "")
    /\ [][\A r \in Requests :
            (response'[r].status \in {400, 415} /\ RequestState(r)' # RequestState(r)) =>
                /\ cache' = cache
                /\ store' = store
                /\ calls'[r] = <<>>
         ]_vars

\* C12 witness: a request was refused while the cache held an entry, and
\* the entry is still there.
C12_Witness ==
    \E r \in Requests :
        /\ Finished(r)
        /\ response[r].status \in {400, 415}
        /\ calls[r] = <<>>
        /\ \E u \in CacheKeys : cache[u] # NoResponse

InFlight == {"head", "match", "get"}

\* How often a call occurs among the calls of a request.
Count(r, c) == Cardinality({i \in DOMAIN calls[r] : calls[r][i] = c})

\* C13: provided every store and cache call settles, every request reaches
\* one terminal response with status 200, 400, 415, 404 or 500; it issues at
\* most one headObject, getObject, cache lookup and cache store, none again
\* after a failure; a store failure other than NotFound ends it with 500.
C13_OneResponseNoRetry ==
    /\ [](\A r \in Requests :
            /\ \A c \in {"headObject", "match", "getObject", "put"} : Count(r, c) <= 1
            /\ Finished(r) <=> response[r] # NoResponse
            /\ Finished(r) => response[r].status \in {200, 400, 415, 404, 500}
            /\ error[r] # "" => Finished(r)
            /\ error[r] \in {"StoreError", "NoSuchKey"} =>
                  /\ response[r].status = 500
                  /\ response[r].body = <<"Internal Server Error">>
                  /\ calls[r][Len(calls[r])] \in StoreCalls
                  /\ putState[r] = "none")
    /\ [][\A r \in Requests :
            (pc[r] = "done" /\ pc'[r] = "done" /\ calls'[r] = calls[r] /\ calls[r] # <<>>) =>
                response'[r] = response[r]
         ]_vars
    /\ \A r \in Requests : (pc[r] \in InFlight) ~> (pc[r] = "done")

\* C13 witness: a request ended 500 on a failure of getObject, after one
\* headObject, one lookup and one getObject call.
C13_Witness ==
    \E r \in Requests :
        /\ Finished(r)
        /\ error[r] \in {"StoreError", "NoSuchKey"}
        /\ response[r].status = 500
        /\ calls[r] = <<"headObject", "match", "getObject">>

(***************************************************************************)
(* Properties of the cache contents                                        *)
(***************************************************************************)
\* What a successful headObject and getObject for key k may have returned.
HeadTags(k) == {SelectSeq(ObjectOf(k, v).ETag, LAMBDA c : c # "\"") : v \in VersionsOf(k)}
Bodies(k) == {ObjectOf(k, v).Body : v \in VersionsOf(k)}

\* A response as the handler builds it from a store fetch for key k.
BuiltFromStore(resp, k) ==
    /\ resp.status = 200
    /\ DOMAIN resp.headers = SixHeaders
    /\ IsMiss(resp)
    /\ resp.headers["content-type"] = MimeOf(extOf(k))
    /\ resp.headers["content-type"] # <<>>
    /\ resp.headers["etag"] \in HeadTags(k)
    /\ resp.body \in Bodies(k)

\* C14: every cache entry is a 200 response built from a successful
\* headObject and getObject for a validated, allow-listed filename, stored
\* with X-Cache-Status MISS and the Content-Type of its extension; only a
\* request that ended 200 MISS hands a response to the cache, so a request
\* that ends 400, 415, 404 or 500 never writes to it.
C14_CacheHoldsOnlyStoreResponses ==
    /\ \A k \in StoreKeys :
          cache[requestUrl(k)] # NoResponse =>
              /\ ~Refused(k)
              /\ Recognised(k)
              /\ BuiltFromStore(cache[requestUrl(k)], k)
    /\ \A r \in Requests :
          /\ (putState[r] # "none" \/ "put" \in Range(calls[r])) =>
                /\ Finished(r)
                /\ error[r] = ""
                /\ calls[r] = <<"headObject", "match", "getObject", "put">>
                /\ headResponse[r] # NoHead
                /\ BuiltFromStore(response[r], filename[r])
                /\ putEntry[r] = response[r]
          /\ (Finished(r) /\ response[r].status \in {400, 415, 404, 500}) =>
                /\ putState[r] = "none"
                /\ putEntry[r] = NoResponse
                /\ "put" \notin Range(calls[r])

\* C14 witness: the cache holds an entry while a request for the same key
\* has ended 500 and a request has been refused.
C14_Witness ==
    \E a, b \in Requests :
        /\ Finished(a) /\ Finished(b)
        /\ response[a].status = 500
        /\ "getObject" \in Range(calls[a])
        /\ cache[requestUrl(filename[a])] # NoResponse
        /\ response[b].status \in {400, 415}

(***************************************************************************)
(* Properties under writes of the bucket by other parties                  *)
(***************************************************************************)
\* The response describes one version of the object under k: tag, length
\* and body all belong to it.
DescribesOneVersion(resp, k) ==
    \E v \in VersionsOf(k) :
        /\ Header(resp, "etag") = SelectSeq(ObjectOf(k, v).ETag, LAMBDA c : c # "\"")
        /\ DigitsValue(Header(resp, "content-length")) = ObjectOf(k, v).ContentLength
        /\ resp.body = ObjectOf(k, v).Body

\* C15 as stated: in every 200 MISS response and in every cache entry, ETag
\* and Content-Length describe the same object version as the body, also
\* when the object is replaced or deleted between headObject and getObject.
C15_HeadersDescribeBody ==
    /\ \A r \in Requests :
          (Finished(r) /\ response[r].status = 200 /\ IsMiss(response[r])) =>
              DescribesOneVersion(response[r], filename[r])
    /\ \A k \in StoreKeys :
          cache[requestUrl(k)] # NoResponse =>
              DescribesOneVersion(cache[requestUrl(k)], k)

\* C16: a response with X-Cache-Status HIT is returned only by a request
\* whose own headObject call has succeeded; a request whose headObject is
\* answered while the bucket does not hold the key ends 404 or 500 and is
\* not answered from the cache, even while a cache entry for it exists.
C16_HitOnlyAfterHead ==
    /\ [](\A r \in Requests :
            (Finished(r) /\ IsHit(response[r])) =>
                /\ headResponse[r] # NoHead
                /\ calls[r] = <<"headObject", "match">>
                /\ error[r] = "")
    /\ [][\A r \in Requests :
            (/\ pc[r] = "head"
             /\ pc'[r] # "head"
             /\ storeLookup(filename[r]) = Absent) =>
                /\ pc'[r] = "done"
                /\ response'[r].status \in {404, 500}
                /\ ~IsHit(response'[r])
                /\ "match" \notin Range(calls'[r])
         ]_vars

\* C16 witness: one request was answered from the cache; the object is now
\* gone, the entry is still cached, and another request for the key ended 404.
C16_Witness ==
    \E a, b \in Requests :
        /\ Finished(a) /\ Finished(b)
        /\ filename[a] = filename[b]
        /\ IsHit(response[a])
        /\ headResponse[a] # NoHead
        /\ response[b].status = 404
        /\ storeLookup(filename[b]) = Absent
        /\ cache[requestUrl(filename[b])] # NoResponse

====
